---------------------------- MODULE Spec2Model ----------------------------
(***************************************************************************)
(* Model of src/python/virus_check.py: the S3 virus-scan Lambda.           *)
(*                                                                         *)
(*   sanitize_s3_key      pure function on keys (sequences of characters)  *)
(*   scan_file            the scanner adapter (exit status -> verdict)     *)
(*   get_file_size_mb     the size probe (head_object)                     *)
(*   scan_s3_object       the single-object pipeline, one action per step  *)
(*   list_all_s3_objects  the paginated listing                            *)
(*   lambda_handler       the reactive / batch driver and the fold         *)
(*                                                                         *)
(* Strings that the code inspects character by character (keys, paths)     *)
(* are sequences of one-character strings.  Sizes are kept in bytes, so    *)
(* size_mb > MAX_FILE_SIZE_MB is size_bytes > MAX_FILE_SIZE_MB * 2^20.     *)
(***************************************************************************)
EXTENDS Integers, Sequences, FiniteSets, TLC

VARIABLES
    \* ---- inputs of one invocation
    has_records,      \* 'Records' in event
    records,          \* event['Records'] (<<>> when absent)
    env_bucket,       \* os.environ.get('S3_BUCKET_NAME'), "" when unset
    has_context,      \* context is not None
    store_keys,       \* the bucket's contents, in listing order
    \* ---- lambda_handler
    pc, bucket_name, object_keys, page_no, idx, scan_results,
    \* ---- scan_s3_object (the run in progress)
    ppc, key, file_size_mb, temp_dir, safe_key, temp_file_path, result,
    \* ---- environment and observers (test doubles)
    dir_exists,       \* os.path.exists(temp_dir)
    faults,           \* collaborator faults injected so far
    events,           \* collaborator calls of the current pipeline run, in order
    calls,            \* collaborator calls of the whole invocation, counted
    checks,           \* calls of context.get_remaining_time_in_millis()
    stopped,          \* the batch loop left by the time-budget break
    last_remaining,   \* what get_remaining_time_in_millis() returned last
    \* ---- the sanitizer applied on its own (SanSpec)
    san_pc, san_key, san_out, san_path

inputVars   == <<has_records, records, env_bucket, has_context, store_keys>>
handlerVars == <<pc, bucket_name, object_keys, page_no, idx, scan_results>>
pipeVars    == <<ppc, key, file_size_mb, temp_dir, safe_key, temp_file_path, result>>
envVars     == <<dir_exists, faults, events, calls, checks, stopped, last_remaining>>
sanVars     == <<san_pc, san_key, san_out, san_path>>
vars        == <<inputVars, handlerVars, pipeVars, envVars, sanVars>>

(***************************************************************************)
(* Bounds of the model.                                                    *)
(***************************************************************************)
MaxKeyLen  == 7     \* longest key SanSpec enumerates
MaxObjects == 5     \* most objects in the bucket
MaxRecords == 2     \* most notification records in an event
MaxFaults  == 2     \* most collaborator faults injected in one invocation
PageSize   == 2     \* keys per listing page

(***************************************************************************)
(* Program constants.                                                      *)
(***************************************************************************)
NoReading        == -1      \* the remaining time has not been read
MAX_FILE_SIZE_MB == 100
BytesPerMB       == 1048576
MaxKeyChars      == 255
TimeMarginMillis == 30000

(***************************************************************************)
(* Character sequences.                                                    *)
(***************************************************************************)
Dot       == "."
Slash     == "/"
Backslash == "\\"

Min(a, b) == IF a < b THEN a ELSE b
Max(a, b) == IF a > b THEN a ELSE b

StartsWith(s, p) == Len(p) <= Len(s) /\ SubSeq(s, 1, Len(p)) = p

\* s[i:] and s[:n] of Python, with n possibly negative or beyond the end
DropFirst(s, n) == SubSeq(s, n + 1, Len(s))
SliceTo(s, n)   == IF n >= 0 THEN SubSeq(s, 1, Min(n, Len(s)))
                             ELSE SubSeq(s, 1, Max(Len(s) + n, 0))

\* s.rfind(c), 1-based; 0 when c does not occur
RFind(s, c) ==
    LET hits == {i \in 1..Len(s) : s[i] = c}
    IN  IF hits = {} THEN 0 ELSE CHOOSE i \in hits : \A j \in hits : j <= i

\* re.sub(pat, '', s) for a literal pattern: leftmost non-overlapping
\* matches are removed in ONE left-to-right pass
RECURSIVE RemoveAll(_, _)
RemoveAll(s, pat) ==
    LET hits == {i \in 1..(Len(s) - Len(pat) + 1) : SubSeq(s, i, i + Len(pat) - 1) = pat}
    IN  IF hits = {} THEN s
        ELSE LET i == CHOOSE h \in hits : \A j \in hits : h <= j
             IN  SubSeq(s, 1, i - 1) \o RemoveAll(DropFirst(s, i + Len(pat) - 1), pat)

\* s.lstrip(c)
LStrip(s, c) ==
    LET keep == {i \in 1..Len(s) : s[i] # c}
    IN  IF keep = {} THEN <<>>
        ELSE DropFirst(s, (CHOOSE i \in keep : \A j \in keep : i <= j) - 1)

\* s.split(sep)
RECURSIVE Split(_, _)
Split(s, sep) ==
    LET hits == {i \in 1..Len(s) : s[i] = sep}
    IN  IF hits = {} THEN <<s>>
        ELSE LET i == CHOOSE h \in hits : \A j \in hits : h <= j
             IN  <<SubSeq(s, 1, i - 1)>> \o Split(DropFirst(s, i), sep)

\* sep.join(comps)
RECURSIVE JoinWith(_, _)
JoinWith(comps, sep) ==
    IF comps = <<>> THEN <<>>
    ELSE IF Len(comps) = 1 THEN comps[1]
    ELSE comps[1] \o <<sep>> \o JoinWith(Tail(comps), sep)

Contains(s, pat) ==
    \E i \in 1..Len(s) : i + Len(pat) - 1 <= Len(s) /\ SubSeq(s, i, i + Len(pat) - 1) = pat

(***************************************************************************)
(* os.path.splitext(p)[1] (posixpath / genericpath._splitext): the         *)
(* extension starts at the last dot of the last path component, unless     *)
(* that component consists of leading dots only up to it.                  *)
(***************************************************************************)
SplitExt(p) ==
    LET sepIndex == RFind(p, Slash)
        dotIndex == RFind(p, Dot)
    IN  IF dotIndex > sepIndex
           /\ \E f \in (sepIndex + 1)..(dotIndex - 1) : p[f] # Dot
        THEN DropFirst(p, dotIndex - 1)
        ELSE <<>>

(***************************************************************************)
(* sanitize_s3_key (lines 20-42).                                          *)
(***************************************************************************)
DangerousChars == {"<", ">", ":", "\"", "|", "?", "*"}

ReplaceDangerous(s) == [i \in 1..Len(s) |-> IF s[i] \in DangerousChars THEN "_" ELSE s[i]]

Truncate(k) ==
    IF Len(k) > MaxKeyChars
    THEN LET ext == SplitExt(k) IN SliceTo(k, MaxKeyChars - Len(ext)) \o ext
    ELSE k

\* lines 31-32: each pattern removed in one pass, never re-scanned
RemoveTraversal(k) ==
    RemoveAll(RemoveAll(k, <<Dot, Dot, Slash>>), <<Dot, Dot, Backslash>>)

sanitize_s3_key(k) ==
    Truncate(ReplaceDangerous(LStrip(RemoveTraversal(k), Slash)))

(***************************************************************************)
(* os.path.join(a, b) and os.path.normpath(p) (posixpath).                 *)
(***************************************************************************)
PathJoin(a, b) ==
    IF StartsWith(b, <<Slash>>) THEN b
    ELSE IF a = <<>> \/ a[Len(a)] = Slash THEN a \o b
    ELSE a \o <<Slash>> \o b

InitialSlashes(p) ==
    IF ~StartsWith(p, <<Slash>>) THEN 0
    ELSE IF StartsWith(p, <<Slash, Slash>>) /\ ~StartsWith(p, <<Slash, Slash, Slash>>) THEN 2
    ELSE 1

RECURSIVE NormComps(_, _, _)
NormComps(comps, acc, initial) ==
    IF comps = <<>> THEN acc
    ELSE LET c == Head(comps)
         IN  IF c = <<>> \/ c = <<Dot>> THEN NormComps(Tail(comps), acc, initial)
             ELSE IF c # <<Dot, Dot>>
                     \/ (initial = 0 /\ acc = <<>>)
                     \/ (acc # <<>> /\ acc[Len(acc)] = <<Dot, Dot>>)
                  THEN NormComps(Tail(comps), Append(acc, c), initial)
             ELSE IF acc # <<>>
                  THEN NormComps(Tail(comps), SubSeq(acc, 1, Len(acc) - 1), initial)
             ELSE NormComps(Tail(comps), acc, initial)

NormPath(p) ==
    IF p = <<>> THEN <<Dot>>
    ELSE LET initial == InitialSlashes(p)
             body    == JoinWith(NormComps(Split(p, Slash), <<>>, initial), Slash)
             full    == [i \in 1..initial |-> Slash] \o body
         IN  IF full = <<>> THEN <<Dot>> ELSE full

\* the components of a normalised path
Segments(p) == SelectSeq(Split(p, Slash), LAMBDA c : c # <<>>)

HasDotDotSegment(p) == \E i \in 1..Len(Split(p, Slash)) : Split(p, Slash)[i] = <<Dot, Dot>>

\* p is root itself or below it, component by component
LexicallyInside(p, root) == StartsWith(Segments(p), Segments(root))

\* tempfile.mkdtemp(): a fresh absolute directory
TempRoot == <<Slash, "t", Slash, "w">>

(***************************************************************************)
(* SanSpec: the sanitizer applied to every key over SanAlphabet of length  *)
(* at most MaxKeyLen and to the listed adversarial keys, then the result   *)
(* joined to a workspace root and resolved.                                *)
(***************************************************************************)
SanAlphabet == {Dot, Slash, Backslash, "e"}

SanKeys == UNION {[1..n -> SanAlphabet] : n \in 0..MaxKeyLen}

EtcPasswd == <<Dot, Dot, Dot, Dot, Slash, Slash, "e", "t", "c", Slash,
               "p", "a", "s", "s", "w", "d">>

AdversarialKeys ==
    { EtcPasswd,
      <<Slash, Slash, "e", "t", "c", Slash, "p", "w">>,
      <<Dot, Dot, Slash, Dot, Dot, Slash, "a", ":", "b", "?", Dot, "t", "x", "t">> }

\* keys longer than the 255-character cap: a long stem with a short
\* extension, and a short stem with an extension that is itself longer
\* than the cap
LongLen == MaxKeyChars + 45

LongStemKey == [i \in 1..LongLen |-> "a"] \o <<Dot, "t", "x", "t">>

LongExtKey == <<"a", Dot>> \o [i \in 1..LongLen |-> "b"]

LongKeys == {LongStemKey, LongExtKey}

Idle ==
    /\ has_records = FALSE /\ records = <<>> /\ env_bucket = "" /\ has_context = FALSE
    /\ store_keys = <<>>
    /\ pc = "idle" /\ bucket_name = "" /\ object_keys = <<>> /\ page_no = 0 /\ idx = 0
    /\ scan_results = [total_scanned |-> 0, clean |-> 0, infected |-> 0, errors |-> 0,
                       skipped |-> 0, details |-> <<>>, error |-> ""]
    /\ ppc = "none" /\ key = <<>> /\ file_size_mb = 0 /\ temp_dir = <<>>
    /\ safe_key = <<>> /\ temp_file_path = <<>>
    /\ result = [key |-> <<>>, status |-> "none", size_mb |-> -1, error |-> <<>>]
    /\ dir_exists = FALSE /\ faults = 0 /\ events = <<>>
    /\ calls = [list |-> 0, head |-> 0, get |-> 0, scan |-> 0, acquire |-> 0, release |-> 0]
    /\ checks = 0 /\ stopped = FALSE /\ last_remaining = NoReading

SanInit ==
    /\ Idle
    /\ san_pc = "raw"
    /\ san_key \in SanKeys \cup AdversarialKeys \cup LongKeys
    /\ san_out = <<>>
    /\ san_path = <<>>

SanSanitize ==
    /\ san_pc = "raw"
    /\ san_out' = sanitize_s3_key(san_key)
    /\ san_pc' = "sanitized"
    /\ UNCHANGED <<san_key, san_path, inputVars, handlerVars, pipeVars, envVars>>

SanResolve ==
    /\ san_pc = "sanitized"
    /\ san_path' = NormPath(PathJoin(TempRoot, san_out))
    /\ san_pc' = "resolved"
    /\ UNCHANGED <<san_key, san_out, inputVars, handlerVars, pipeVars, envVars>>

SanNext == SanSanitize \/ SanResolve

SanSpec == SanInit /\ [][SanNext]_vars


(***************************************************************************)
(* The object store and the scanner, as the program sees them.  What an    *)
(* object is (its size, its content, whether it still exists when it is    *)
(* fetched) is fixed by its key; faults of the collaborators are injected  *)
(* freely, at most MaxFaults of them in one invocation.                    *)
(***************************************************************************)
KClean1  == <<"c", "l", "e", "a", "n", "1", Dot, "t", "x", "t">>
KEicar   == <<"e", "i", "c", "a", "r", Dot, "t", "x", "t">>
KHuge    == <<"h", "u", "g", "e", Dot, "b", "i", "n">>
KMissing == <<"m", "i", "s", "s", "i", "n", "g", "-", "a", "f", "t", "e", "r", "-",
              "l", "i", "s", "t", Dot, "t", "x", "t">>
KAtLimit == <<"a", "t", "l", "i", "m", "i", "t", Dot, "b", "i", "n">>
KOver    == <<"o", "v", "e", "r">>

\* ....//w2.txt: what is left of it after one removal pass climbs out of
\* the workspace into a sibling whose name starts like the workspace's
KSibling == <<Dot, Dot, Dot, Dot, Slash, Slash, "w", "2", Dot, "t", "x", "t">>

KeyUniverse == <<KClean1, KEicar, KHuge, KMissing, KAtLimit, KOver>>

\* ContentLength in bytes
ObjectSize(k) ==
    CASE k = KClean1  -> BytesPerMB
      [] k = KHuge    -> 150 * BytesPerMB
      [] k = KAtLimit -> MAX_FILE_SIZE_MB * BytesPerMB
      [] k = KOver    -> MAX_FILE_SIZE_MB * BytesPerMB + 1
      [] OTHER        -> 68

\* deleted between the listing (or the notification) and the fetch
ObjectPresent(k) == k # KMissing

\* what clamscan exits with on the object's content when it runs to its end
ContentExit(k) == IF k = KEicar THEN 1 ELSE 0

Listing(n) == [i \in 1..n |-> KeyUniverse[i]]

BucketName == "scan-bucket"

ReactiveKeys == {KEicar, KOver, KMissing, KSibling}

RecordUniverse ==
    {[eventSource |-> "aws:s3", bucket |-> BucketName, key |-> k] : k \in ReactiveKeys}
    \cup {[eventSource |-> "aws:sns", bucket |-> BucketName, key |-> KClean1]}

RecordLists == UNION {[1..n -> RecordUniverse] : n \in 0..MaxRecords}

CanFault == faults < MaxFaults

\* s3_client.head_object
HeadOutcomes(k) ==
    IF ~ObjectPresent(k)
    THEN {[kind |-> "ClientError", code |-> "404", size |-> 0, fault |-> 0]}
    ELSE {[kind |-> "ok", code |-> "", size |-> ObjectSize(k), fault |-> 0]}
         \cup (IF CanFault
               THEN {[kind |-> "ClientError", code |-> "AccessDenied", size |-> 0, fault |-> 1],
                     [kind |-> "Exception", code |-> "", size |-> 0, fault |-> 1]}
               ELSE {})

\* s3_client.download_file followed by os.path.exists(temp_file_path)
DownloadOutcomes(k) ==
    IF ~ObjectPresent(k)
    THEN {[kind |-> "ClientError", code |-> "404", fault |-> 0]}
    ELSE {[kind |-> "ok", code |-> "", fault |-> 0]}
         \cup (IF CanFault
               THEN {[kind |-> "ClientError", code |-> "AccessDenied", fault |-> 1],
                     [kind |-> "Exception", code |-> "", fault |-> 1],
                     [kind |-> "file_missing", code |-> "", fault |-> 1]}
               ELSE {})

\* subprocess.run(['clamscan', ...], timeout=CLAMSCAN_TIMEOUT)
ScannerOutcomes(k) ==
    {[kind |-> "exit", returncode |-> ContentExit(k), fault |-> 0]}
    \cup (IF CanFault
          THEN {[kind |-> "exit", returncode |-> 2, fault |-> 1],
                [kind |-> "TimeoutExpired", returncode |-> 0, fault |-> 1],
                [kind |-> "FileNotFoundError", returncode |-> 0, fault |-> 1],
                [kind |-> "Exception", returncode |-> 0, fault |-> 1]}
          ELSE {})

ScanOutcomeName(o) ==
    IF o.kind # "exit" THEN o.kind
    ELSE CASE o.returncode = 0 -> "exit0" [] o.returncode = 1 -> "exit1" [] OTHER -> "exit2"

\* context.get_remaining_time_in_millis()
RemainingTimes == {TimeMarginMillis - 1, TimeMarginMillis}

(***************************************************************************)
(* Results and the summary.                                                *)
(***************************************************************************)
NoSize == -1
NoResult == [key |-> <<>>, status |-> "none", size_mb |-> NoSize, error |-> <<>>]

Statuses == {"clean", "infected", "error", "skipped"}

EmptySummary ==
    [total_scanned |-> 0, clean |-> 0, infected |-> 0, errors |-> 0, skipped |-> 0,
     details |-> <<>>, error |-> ""]

NoCalls == [list |-> 0, head |-> 0, get |-> 0, scan |-> 0, acquire |-> 0, release |-> 0]

Called(op) == [calls EXCEPT ![op] = @ + 1]

(***************************************************************************)
(* scan_file (lines 45-87): <<is_infected, error_message>>; raised is TRUE *)
(* when the exception leaves scan_file.                                    *)
(***************************************************************************)
\* faulty variant: subprocess.TimeoutExpired is not caught
scan_file_timeout_escapes(o) ==
    CASE o.kind = "exit" /\ o.returncode = 1 ->
            [raised |-> FALSE, is_infected |-> TRUE, error |-> <<>>]
      [] o.kind = "exit" /\ o.returncode = 0 ->
            [raised |-> FALSE, is_infected |-> FALSE, error |-> <<>>]
      [] o.kind = "exit" /\ o.returncode \notin {0, 1} ->
            [raised |-> FALSE, is_infected |-> FALSE,
             error |-> <<"ClamAV scan failed with return code", "2">>]
      [] o.kind = "TimeoutExpired" ->
            [raised |-> TRUE, is_infected |-> FALSE, error |-> <<"TimeoutExpired", "">>]
      [] o.kind = "FileNotFoundError" ->
            [raised |-> FALSE, is_infected |-> FALSE, error |-> <<"ClamAV (clamscan) not found", "">>]
      [] OTHER ->
            [raised |-> FALSE, is_infected |-> FALSE, error |-> <<"Error scanning file", "">>]

\* faulty variant: every exit status but 0 is read as a detection
scan_file_nonzero_infected(o) ==
    CASE o.kind = "exit" /\ o.returncode # 0 ->
            [raised |-> FALSE, is_infected |-> TRUE, error |-> <<>>]
      [] o.kind = "exit" /\ o.returncode = 0 ->
            [raised |-> FALSE, is_infected |-> FALSE, error |-> <<>>]
      [] o.kind = "TimeoutExpired" ->
            [raised |-> FALSE, is_infected |-> FALSE, error |-> <<"ClamAV scan timed out", "">>]
      [] o.kind = "FileNotFoundError" ->
            [raised |-> FALSE, is_infected |-> FALSE, error |-> <<"ClamAV (clamscan) not found", "">>]
      [] OTHER ->
            [raised |-> FALSE, is_infected |-> FALSE, error |-> <<"Error scanning file", "">>]

scan_file(o) ==
    CASE o.kind = "exit" /\ o.returncode = 1 ->
            [raised |-> FALSE, is_infected |-> TRUE, error |-> <<>>]
      [] o.kind = "exit" /\ o.returncode = 0 ->
            [raised |-> FALSE, is_infected |-> FALSE, error |-> <<>>]
      [] o.kind = "exit" /\ o.returncode \notin {0, 1} ->
            [raised |-> FALSE, is_infected |-> FALSE,
             error |-> <<"ClamAV scan failed with return code", "2">>]
      [] o.kind = "TimeoutExpired" ->
            [raised |-> FALSE, is_infected |-> FALSE, error |-> <<"ClamAV scan timed out", "">>]
      [] o.kind = "FileNotFoundError" ->
            [raised |-> FALSE, is_infected |-> FALSE, error |-> <<"ClamAV (clamscan) not found", "">>]
      [] OTHER ->
            [raised |-> FALSE, is_infected |-> FALSE, error |-> <<"Error scanning file", "">>]

(***************************************************************************)
(* get_file_size_mb (lines 90-108): only ClientError is caught.            *)
(***************************************************************************)
get_file_size_mb(o) ==
    CASE o.kind = "ok"          -> [raised |-> FALSE, size |-> o.size]
      [] o.kind = "ClientError" -> [raised |-> FALSE, size |-> 0]
      [] OTHER                  -> [raised |-> TRUE, size |-> 0]

(***************************************************************************)
(* scan_s3_object (lines 111-216), its pieces.                             *)
(***************************************************************************)
\* faulty variant: the gate compares with >=
ExceedsLimitInclusive(size) == size >= MAX_FILE_SIZE_MB * BytesPerMB

\* line 129
ExceedsLimit(size) == size > MAX_FILE_SIZE_MB * BytesPerMB

\* lines 131-136
SkippedResult(k, size) ==
    [key |-> k, status |-> "skipped", size_mb |-> size,
     error |-> <<"File size exceeds limit", "">>]

\* faulty variant: the error message of scan_file is not looked at
VerdictIgnoresError(k, is_infected, error, size) ==
    IF is_infected THEN [key |-> k, status |-> "infected", size_mb |-> size, error |-> <<>>]
    ELSE [key |-> k, status |-> "clean", size_mb |-> size, error |-> <<>>]

\* lines 170-190
VerdictResult(k, is_infected, error, size) ==
    IF error # <<>> THEN [key |-> k, status |-> "error", size_mb |-> size, error |-> error]
    ELSE IF is_infected THEN [key |-> k, status |-> "infected", size_mb |-> size, error |-> <<>>]
    ELSE [key |-> k, status |-> "clean", size_mb |-> size, error |-> <<>>]

\* faulty variant: only ClientError is handled; anything else leaves the pipeline
ExceptClientErrorOnly(k, exc) ==
    IF exc.kind = "ClientError"
    THEN [key |-> k, status |-> "error", size_mb |-> NoSize,
          error |-> <<"Error accessing S3 object", exc.code>>]
    ELSE [key |-> k, status |-> "raised", size_mb |-> NoSize, error |-> <<exc.kind, exc.code>>]

\* faulty variant: a ClientError is reported like any other exception, its
\* error code lost
ExceptResultNoCode(k, exc) ==
    [key |-> k, status |-> "error", size_mb |-> NoSize,
     error |-> <<"Unexpected error processing", "">>]

\* lines 192-208: except ClientError / except Exception
ExceptResult(k, exc) ==
    IF exc.kind = "ClientError"
    THEN [key |-> k, status |-> "error", size_mb |-> NoSize,
          error |-> <<"Error accessing S3 object", exc.code>>]
    ELSE [key |-> k, status |-> "error", size_mb |-> NoSize,
          error |-> <<"Unexpected error processing", exc.code>>]

Exc(kind, code) == [kind |-> kind, code |-> code]

\* lines 145-146
FileExtension(sk) == IF SplitExt(sk) = <<>> THEN <<Dot, "t", "m", "p">> ELSE SplitExt(sk)

\* faulty variant: the object is stored under its sanitized key
LocalPathFromKey(dir, sk) == NormPath(PathJoin(dir, sk))

LocalPath(dir, sk) ==
    NormPath(PathJoin(dir, <<"d", "o", "w", "n", "l", "o", "a", "d", "e", "d", "_",
                             "f", "i", "l", "e">> \o FileExtension(sk)))

\* lines 151 and 163: abspath(temp_file_path).startswith(abspath(temp_dir))
WithinTempDir(path, dir) == StartsWith(NormPath(path), NormPath(dir))

\* faulty variant: the workspace is removed on the success path only
ShouldReleaseOnSuccess(dir, exists, r) == dir # <<>> /\ exists /\ r.status # "error"

\* line 211
ShouldRelease(dir, exists, r) == dir # <<>> /\ exists

(***************************************************************************)
(* list_all_s3_objects (lines 219-243) and lambda_handler (246-342).       *)
(***************************************************************************)
PageCount == IF store_keys = <<>> THEN 1 ELSE (Len(store_keys) + PageSize - 1) \div PageSize

Page(n) == SubSeq(store_keys, (n - 1) * PageSize + 1, Min(n * PageSize, Len(store_keys)))

\* faulty variant: a failing page ends the listing quietly with the keys read so far
ListingFailureSwallowed(keys_so_far) == [raised |-> FALSE, keys |-> keys_so_far]

\* lines 239-241: log and re-raise
ListingFailure(keys_so_far) == [raised |-> TRUE, keys |-> <<>>]

\* faulty variant: the margin itself already stops the loop
BudgetExhaustedInclusive(ctx, remaining) == ctx /\ remaining <= TimeMarginMillis

\* line 309
BudgetExhausted(ctx, remaining) == ctx /\ remaining < TimeMarginMillis

\* faulty variant: stopping for lack of time is reported as a failure of the scan
OnBudgetExhaustedError(sr) == [sr EXCEPT !.error = "Error during full bucket scan"]

\* lines 310-311: break leaves the summary as it is
OnBudgetExhausted(sr) == sr

\* faulty variant: an infected object is counted with the errors
FoldInfectedAsError(sr, r) ==
    [sr EXCEPT !.details = Append(@, r),
               !.total_scanned = @ + 1,
               !.clean = IF r.status = "clean" THEN @ + 1 ELSE @,
               !.errors = IF r.status \in {"error", "infected"} THEN @ + 1 ELSE @,
               !.skipped = IF r.status = "skipped" THEN @ + 1 ELSE @]

\* faulty variant: a skipped object is recorded but not counted as scanned
FoldSkipNotScanned(sr, r) ==
    [sr EXCEPT !.details = Append(@, r),
               !.total_scanned = IF r.status = "skipped" THEN @ ELSE @ + 1,
               !.infected = IF r.status = "infected" THEN @ + 1 ELSE @,
               !.clean = IF r.status = "clean" THEN @ + 1 ELSE @,
               !.errors = IF r.status = "error" THEN @ + 1 ELSE @,
               !.skipped = IF r.status = "skipped" THEN @ + 1 ELSE @]

\* lines 285-295 and 314-324
Fold(sr, r) ==
    [sr EXCEPT !.details = Append(@, r),
               !.total_scanned = @ + 1,
               !.infected = IF r.status = "infected" THEN @ + 1 ELSE @,
               !.clean = IF r.status = "clean" THEN @ + 1 ELSE @,
               !.errors = IF r.status = "error" THEN @ + 1 ELSE @,
               !.skipped = IF r.status = "skipped" THEN @ + 1 ELSE @]

\* lines 326-330
BatchFailed(sr) == [sr EXCEPT !.error = "Error during full bucket scan"]

\* lines 332-336
NoBucket(sr) == [sr EXCEPT !.error = "S3_BUCKET_NAME not set and no S3 event provided"]

(***************************************************************************)
(* One invocation of lambda_handler.                                       *)
(***************************************************************************)
Init ==
    /\ has_records \in BOOLEAN
    /\ env_bucket \in {"", BucketName}
    /\ IF has_records
       THEN \* an event notification: the Lambda runtime passes a context, which
            \* this branch never reads, and the bucket is never listed (its
            \* contents are enumerated for the event without records only)
            /\ records \in RecordLists
            /\ has_context = TRUE
            /\ \E n \in 0..(IF records = <<>> THEN Min(MaxObjects, Len(KeyUniverse)) ELSE 0) :
                  store_keys = Listing(n)
       ELSE /\ records = <<>>
            /\ has_context \in BOOLEAN
            /\ \E n \in 0..Min(MaxObjects, Len(KeyUniverse)) : store_keys = Listing(n)
    /\ pc = "start" /\ bucket_name = "" /\ object_keys = <<>> /\ page_no = 0 /\ idx = 0
    /\ scan_results = EmptySummary
    /\ ppc = "none" /\ key = <<>> /\ file_size_mb = 0 /\ temp_dir = <<>>
    /\ safe_key = <<>> /\ temp_file_path = <<>> /\ result = NoResult
    /\ dir_exists = FALSE /\ faults = 0 /\ events = <<>> /\ calls = NoCalls
    /\ checks = 0 /\ stopped = FALSE /\ last_remaining = NoReading
    /\ san_pc = "off" /\ san_key = <<>> /\ san_out = <<>> /\ san_path = <<>>

\* scan_s3_object(s3_client, b, k) is entered: lines 123-124
EnterPipeline(b, k) ==
    /\ bucket_name' = b
    /\ key' = k
    /\ ppc' = "probe"
    /\ file_size_mb' = 0 /\ temp_dir' = <<>> /\ safe_key' = <<>> /\ temp_file_path' = <<>>
    /\ result' = NoResult
    /\ dir_exists' = FALSE
    /\ events' = <<>>

\* lines 273-298 and 332-336: which shape the invocation has
Dispatch ==
    /\ pc = "start"
    /\ bucket_name' = env_bucket
    /\ IF has_records
       THEN pc' = "records" /\ idx' = 1 /\ UNCHANGED scan_results
       ELSE IF env_bucket # ""
       THEN pc' = "listing" /\ UNCHANGED <<idx, scan_results>>
       ELSE pc' = "done" /\ scan_results' = NoBucket(scan_results) /\ UNCHANGED idx
    /\ UNCHANGED <<object_keys, page_no, inputVars, pipeVars, envVars, sanVars>>

\* lines 279-280: a record of another event source is passed over
RecordSkip ==
    /\ pc = "records" /\ idx <= Len(records)
    /\ records[idx].eventSource # "aws:s3"
    /\ idx' = idx + 1
    /\ UNCHANGED <<pc, bucket_name, object_keys, page_no, scan_results,
                   inputVars, pipeVars, envVars, sanVars>>

\* lines 281-284
RecordScan ==
    /\ pc = "records" /\ idx <= Len(records)
    /\ records[idx].eventSource = "aws:s3"
    /\ EnterPipeline(records[idx].bucket, records[idx].key)
    /\ pc' = "scanning"
    /\ UNCHANGED <<object_keys, page_no, idx, scan_results, inputVars,
                   faults, calls, checks, last_remaining, stopped, sanVars>>

\* lines 338-342 after the loop over the records
RecordsDone ==
    /\ pc = "records" /\ idx > Len(records)
    /\ pc' = "done"
    /\ UNCHANGED <<bucket_name, object_keys, page_no, idx, scan_results,
                   inputVars, pipeVars, envVars, sanVars>>

\* lines 236-238: one more page of the listing arrives
ListPage ==
    /\ pc = "listing"
    /\ page_no < PageCount
    /\ page_no' = page_no + 1
    /\ object_keys' = object_keys \o Page(page_no + 1)
    /\ calls' = Called("list")
    /\ IF page_no + 1 = PageCount THEN pc' = "batch" /\ idx' = 1
                                  ELSE UNCHANGED <<pc, idx>>
    /\ UNCHANGED <<bucket_name, scan_results, inputVars, pipeVars,
                   dir_exists, faults, events, checks, last_remaining, stopped, sanVars>>

\* lines 239-241 and 326-330: the request for the next page fails
ListFail ==
    /\ pc = "listing"
    /\ page_no < PageCount
    /\ CanFault
    /\ faults' = faults + 1
    /\ calls' = Called("list")
    /\ LET out == ListingFailure(object_keys)
       IN  IF out.raised
           THEN /\ pc' = "done"
                /\ scan_results' = BatchFailed(scan_results)
                /\ object_keys' = <<>>
                /\ UNCHANGED <<idx, page_no>>
           ELSE /\ pc' = "batch"
                /\ idx' = 1
                /\ object_keys' = out.keys
                /\ UNCHANGED <<scan_results, page_no>>
    /\ UNCHANGED <<bucket_name, inputVars, pipeVars, dir_exists, events, checks, last_remaining,
                   stopped, sanVars>>

\* lines 307-313: the loop head; the remaining time is read when there is a context
BatchNext ==
    /\ pc = "batch" /\ idx <= Len(object_keys)
    /\ \E remaining \in RemainingTimes :
          /\ checks' = IF has_context THEN checks + 1 ELSE checks
          /\ last_remaining' = IF has_context THEN remaining ELSE last_remaining
          /\ IF BudgetExhausted(has_context, remaining)
             THEN /\ pc' = "done"
                  /\ stopped' = TRUE
                  /\ scan_results' = OnBudgetExhausted(scan_results)
                  /\ UNCHANGED <<bucket_name, pipeVars, dir_exists, events>>
             ELSE /\ EnterPipeline(bucket_name, object_keys[idx])
                  /\ pc' = "scanning"
                  /\ UNCHANGED <<stopped, scan_results>>
    /\ UNCHANGED <<object_keys, page_no, idx, inputVars, faults, calls, sanVars>>

\* lines 338-342 after the loop over the keys
BatchDone ==
    /\ pc = "batch" /\ idx > Len(object_keys)
    /\ pc' = "done"
    /\ UNCHANGED <<bucket_name, object_keys, page_no, idx, scan_results,
                   inputVars, pipeVars, envVars, sanVars>>

(***************************************************************************)
(* scan_s3_object, step by step.  A step that raises goes to the except    *)
(* clauses (ExceptResult) and from there to the finally block.             *)
(***************************************************************************)
\* lines 128-136: the size probe and the gate
PipeProbe ==
    /\ pc = "scanning" /\ ppc = "probe"
    /\ \E o \in HeadOutcomes(key) :
          LET got == get_file_size_mb(o)
          IN  /\ faults' = faults + o.fault
              /\ events' = Append(events, <<"head", o.kind>>)
              /\ IF got.raised
                 THEN /\ result' = ExceptResult(key, Exc("Exception", "head_object failed"))
                      /\ ppc' = "finally"
                      /\ UNCHANGED file_size_mb
                 ELSE /\ file_size_mb' = got.size
                      /\ IF ExceedsLimit(got.size)
                         THEN result' = SkippedResult(key, got.size) /\ ppc' = "finally"
                         ELSE ppc' = "acquire" /\ UNCHANGED result
    /\ calls' = Called("head")
    /\ UNCHANGED <<key, temp_dir, safe_key, temp_file_path, dir_exists, checks, last_remaining, stopped,
                   handlerVars, inputVars, sanVars>>

\* line 139: tempfile.mkdtemp()
PipeAcquire ==
    /\ pc = "scanning" /\ ppc = "acquire"
    /\ \/ /\ temp_dir' = TempRoot
          /\ dir_exists' = TRUE
          /\ ppc' = "prepare"
          /\ events' = Append(events, <<"acquire", "ok">>)
          /\ calls' = Called("acquire")
          /\ UNCHANGED <<result, faults>>
       \/ /\ CanFault
          /\ faults' = faults + 1
          /\ result' = ExceptResult(key, Exc("Exception", "mkdtemp failed"))
          /\ ppc' = "finally"
          /\ events' = Append(events, <<"acquire", "OSError">>)
          /\ UNCHANGED <<temp_dir, dir_exists, calls>>
    /\ UNCHANGED <<key, file_size_mb, safe_key, temp_file_path, checks, last_remaining, stopped,
                   handlerVars, inputVars, sanVars>>

\* lines 142-152: the local path and its first containment check
PipePrepare ==
    /\ pc = "scanning" /\ ppc = "prepare"
    /\ safe_key' = sanitize_s3_key(key)
    /\ temp_file_path' = LocalPath(temp_dir, safe_key')
    /\ IF WithinTempDir(temp_file_path', temp_dir)
       THEN ppc' = "download" /\ UNCHANGED result
       ELSE /\ result' = ExceptResult(key, Exc("Exception", "Invalid file path detected"))
            /\ ppc' = "finally"
    /\ UNCHANGED <<key, file_size_mb, temp_dir, handlerVars, inputVars, envVars, sanVars>>

\* lines 156-164: the download, then the existence and containment re-check
PipeDownload ==
    /\ pc = "scanning" /\ ppc = "download"
    /\ \E o \in DownloadOutcomes(key) :
          /\ faults' = faults + o.fault
          /\ IF o.kind \in {"ClientError", "Exception"}
             THEN /\ result' = ExceptResult(key, Exc(o.kind,
                                   IF o.kind = "ClientError" THEN o.code ELSE "download failed"))
                  /\ ppc' = "finally"
                  /\ events' = Append(events, <<"download", o.kind>>)
             ELSE /\ events' = events \o <<(<<"download", "ok">>),
                                           (<<"recheck", IF o.kind = "file_missing"
                                                         THEN "file_missing"
                                                         ELSE IF WithinTempDir(temp_file_path, temp_dir)
                                                         THEN "ok" ELSE "outside">>)>>
                  /\ IF o.kind = "file_missing"
                     THEN /\ result' = ExceptResult(key, Exc("Exception", "Downloaded file not found"))
                          /\ ppc' = "finally"
                     ELSE IF ~WithinTempDir(temp_file_path, temp_dir)
                     THEN /\ result' = ExceptResult(key, Exc("Exception", "Security violation"))
                          /\ ppc' = "finally"
                     ELSE ppc' = "scan" /\ UNCHANGED result
    /\ calls' = Called("get")
    /\ UNCHANGED <<key, file_size_mb, temp_dir, safe_key, temp_file_path, dir_exists,
                   checks, last_remaining, stopped, handlerVars, inputVars, sanVars>>

\* lines 168-190: the scanner and its verdict
PipeScan ==
    /\ pc = "scanning" /\ ppc = "scan"
    /\ \E o \in ScannerOutcomes(key) :
          LET got == scan_file(o)
          IN  /\ faults' = faults + o.fault
              /\ events' = Append(events, <<"scan", ScanOutcomeName(o)>>)
              /\ result' = IF got.raised
                           THEN ExceptResult(key, Exc("Exception", got.error[1]))
                           ELSE VerdictResult(key, got.is_infected, got.error, file_size_mb)
    /\ ppc' = "finally"
    /\ calls' = Called("scan")
    /\ UNCHANGED <<key, file_size_mb, temp_dir, safe_key, temp_file_path, dir_exists,
                   checks, last_remaining, stopped, handlerVars, inputVars, sanVars>>

\* lines 209-216: the finally block; a failing rmtree is logged and swallowed
PipeFinally ==
    /\ pc = "scanning" /\ ppc = "finally"
    /\ IF ShouldRelease(temp_dir, dir_exists, result)
       THEN /\ events' = Append(events, <<"release", "rmtree">>)
            /\ calls' = Called("release")
            /\ \/ dir_exists' = FALSE /\ UNCHANGED faults
               \/ CanFault /\ faults' = faults + 1 /\ UNCHANGED dir_exists
       ELSE UNCHANGED <<events, calls, dir_exists, faults>>
    /\ ppc' = "returned"
    /\ UNCHANGED <<key, file_size_mb, temp_dir, safe_key, temp_file_path, result,
                   checks, last_remaining, stopped, handlerVars, inputVars, sanVars>>

\* lines 285-295 and 314-324: the result is folded into the summary.  An
\* exception that left the pipeline would reach the batch's except clause
\* (lines 326-330) or, in reactive mode, leave the handler.
FoldResult ==
    /\ pc = "scanning" /\ ppc = "returned"
    /\ IF result.status = "raised"
       THEN IF has_records
            THEN pc' = "crashed" /\ UNCHANGED <<scan_results, idx>>
            ELSE pc' = "done" /\ scan_results' = BatchFailed(scan_results) /\ UNCHANGED idx
       ELSE /\ scan_results' = Fold(scan_results, result)
            /\ idx' = idx + 1
            /\ pc' = IF has_records THEN "records" ELSE "batch"
    /\ ppc' = "none"
    /\ UNCHANGED <<bucket_name, object_keys, page_no, key, file_size_mb, temp_dir, safe_key,
                   temp_file_path, result, inputVars, envVars, sanVars>>

Next ==
    \/ Dispatch
    \/ RecordSkip \/ RecordScan \/ RecordsDone
    \/ ListPage \/ ListFail
    \/ BatchNext \/ BatchDone
    \/ PipeProbe \/ PipeAcquire \/ PipePrepare \/ PipeDownload \/ PipeScan
    \/ PipeFinally \/ FoldResult

Spec == Init /\ [][Next]_vars

(***************************************************************************)
(* Observations used by the properties.                                    *)
(***************************************************************************)
Happened(op, out) == \E i \in 1..Len(events) : events[i] = <<op, out>>

CountEvents(op, out) == Cardinality({i \in 1..Len(events) : events[i] = <<op, out>>})

CountOp(op) == Cardinality({i \in 1..Len(events) : events[i][1] = op})

PipelineReturned == pc = "scanning" /\ ppc = "returned"

\* a collaborator outcome after which the object cannot be given a verdict
FatalFailure ==
    \/ Happened("head", "Exception")
    \/ Happened("acquire", "OSError")
    \/ Happened("download", "ClientError")
    \/ Happened("download", "Exception")
    \/ Happened("recheck", "file_missing")
    \/ Happened("recheck", "outside")
    \/ Happened("scan", "exit2")
    \/ Happened("scan", "TimeoutExpired")
    \/ Happened("scan", "FileNotFoundError")
    \/ Happened("scan", "Exception")

LimitBytes == MAX_FILE_SIZE_MB * BytesPerMB

BatchMode == ~has_records /\ env_bucket # ""

\* the listing raised: the handler left the listing before its last page
ListingFailed == BatchMode /\ pc \notin {"start", "listing"} /\ page_no < PageCount

CountStatus(st) ==
    Cardinality({i \in 1..Len(scan_results.details) : scan_results.details[i].status = st})

DetailKeys == [i \in 1..Len(scan_results.details) |-> scan_results.details[i].key]

DetailStatuses == [i \in 1..Len(scan_results.details) |-> scan_results.details[i].status]

(***************************************************************************)
(* C1: one call of scan_s3_object returns exactly one result, for the key  *)
(* it was given, whose status is clean, infected, error or skipped; no     *)
(* exception leaves it (the handler is never left by one), and a run in    *)
(* which a collaborator failed fatally returns status error.               *)
(***************************************************************************)
C1_PipelineTotal ==
    /\ pc # "crashed"
    /\ PipelineReturned =>
          /\ result.status \in Statuses
          /\ result.key = key
          /\ FatalFailure => result.status = "error"

C1_Witness ==
    /\ PipelineReturned
    /\ Happened("head", "ClientError")
    /\ Happened("download", "Exception")
    /\ result.status = "error"

(***************************************************************************)
(* C2: in a pipeline run a release (rmtree) happens only after an acquire  *)
(* (mkdtemp) that succeeded, at most once, and by the time the pipeline    *)
(* returns every acquire has been followed by exactly one release.         *)
(***************************************************************************)
C2_AcquireReleasePaired ==
    /\ CountOp("release") <= CountEvents("acquire", "ok")
    /\ CountEvents("acquire", "ok") <= 1
    /\ \A i \in 1..Len(events) :
          events[i][1] = "release" => \E j \in 1..(i - 1) : events[j] = <<"acquire", "ok">>
    /\ calls.release <= calls.acquire
    /\ (PipelineReturned \/ pc \in {"records", "batch", "done"}) =>
          /\ CountOp("release") = CountEvents("acquire", "ok")
          /\ calls.release = calls.acquire

C2_Witness ==
    /\ PipelineReturned
    /\ result.status = "error"
    /\ Happened("download", "ClientError")
    /\ CountEvents("acquire", "ok") = 1
    /\ CountOp("release") = 1

(***************************************************************************)
(* C3 (as the specification states it): for a key that contains ../ the    *)
(* output of sanitize_s3_key has no .. path segment.                       *)
(***************************************************************************)
C3_NoDotDotSegment ==
    (san_pc # "raw" /\ san_pc # "off" /\ Contains(san_key, <<Dot, Dot, Slash>>))
        => ~HasDotDotSegment(san_out)

(***************************************************************************)
(* C4 (as the specification states it): the sanitizer's output, joined to  *)
(* the workspace root and resolved, lies lexically inside that root.       *)
(***************************************************************************)
C4_ResolvedInsideRoot ==
    san_pc = "resolved" => LexicallyInside(san_path, TempRoot)

(***************************************************************************)
(* C5: once the size probe has reported a size above the limit the run     *)
(* makes no further call (no mkdtemp, no download, no scanner) and its     *)
(* result is skipped; a skipped result is only ever given to an object     *)
(* whose reported size is strictly above the limit.                        *)
(***************************************************************************)
C5_SizeGate ==
    /\ (pc = "scanning" /\ Happened("head", "ok") /\ ObjectSize(key) > LimitBytes) =>
          /\ events = <<(<<"head", "ok">>)>>
          /\ ppc \in {"finally", "returned"}
          /\ result.status = "skipped"
    /\ (pc = "scanning" /\ result.status = "skipped") =>
          (Happened("head", "ok") /\ ObjectSize(key) > LimitBytes)
    /\ \A i \in 1..Len(scan_results.details) :
          scan_results.details[i].status = "skipped"
              <=> scan_results.details[i].size_mb > LimitBytes

C5_Witness ==
    /\ PipelineReturned
    /\ key = KOver
    /\ file_size_mb = LimitBytes + 1
    /\ result.status = "skipped"
    /\ calls.get = 0 /\ calls.acquire = 0 /\ calls.scan = 0

(***************************************************************************)
(* C6: in batch mode a scanner timeout gives that object status error with *)
(* the timeout diagnostic; it never sets the summary's top-level error,    *)
(* and the batch, unless the time budget stops it, still processes every   *)
(* listed object.                                                          *)
(***************************************************************************)
IsTimeoutResult(r) == r.status = "error" /\ r.error = <<"ClamAV scan timed out", "">>

C6_TimeoutIsolated ==
    /\ (PipelineReturned /\ Happened("scan", "TimeoutExpired")) => IsTimeoutResult(result)
    /\ (BatchMode /\ \E i \in 1..Len(scan_results.details) :
                         IsTimeoutResult(scan_results.details[i])) =>
          /\ scan_results.error = ""
          /\ pc \in {"batch", "scanning", "done"}
          /\ (pc = "done" /\ ~stopped) => DetailKeys = object_keys

C6_Witness ==
    /\ BatchMode /\ pc = "done"
    /\ Len(object_keys) >= 3
    /\ DetailKeys = object_keys
    /\ IsTimeoutResult(scan_results.details[1])
    /\ scan_results.error = ""

(***************************************************************************)
(* C7 (as the specification states it): when the (N-3)-th reading of the   *)
(* remaining time is the first below the margin, N-3 objects have been     *)
(* processed.                                                              *)
(***************************************************************************)
C7_StopsAfterNMinus3 ==
    (pc = "done" /\ stopped /\ checks = Len(object_keys) - 3) =>
        /\ scan_results.total_scanned = Len(object_keys) - 3
        /\ Len(scan_results.details) = Len(object_keys) - 3
        /\ scan_results.error = ""

(***************************************************************************)
(* C7 (amended): the k-th reading is taken before the k-th object, so when *)
(* the (N-3)-th reading is the first below the margin exactly N-4 objects  *)
(* have been processed: total_scanned = N-4, details holds the results of  *)
(* the first N-4 keys and nothing for the rest, and no top-level error is  *)
(* set.                                                                    *)
(***************************************************************************)
C7_StopsAfterNMinus4 ==
    (pc = "done" /\ stopped /\ checks = Len(object_keys) - 3) =>
        /\ scan_results.total_scanned = Len(object_keys) - 4
        /\ DetailKeys = SubSeq(object_keys, 1, Len(object_keys) - 4)
        /\ scan_results.errors = CountStatus("error")
        /\ scan_results.error = ""

C7_Witness ==
    /\ pc = "done" /\ stopped
    /\ Len(object_keys) = 5
    /\ checks = 2
    /\ scan_results.total_scanned = 1

(***************************************************************************)
(* C8: when the listing fails, on the first page or a later one, the       *)
(* handler returns a summary with the top-level error set, no details and  *)
(* all counters 0, and no object has been probed, fetched or scanned.      *)
(***************************************************************************)
C8_ListingFailureAborts ==
    ListingFailed =>
        /\ pc = "done"
        /\ scan_results.error # ""
        /\ scan_results.details = <<>>
        /\ scan_results.total_scanned = 0 /\ scan_results.clean = 0
        /\ scan_results.infected = 0 /\ scan_results.errors = 0
        /\ scan_results.skipped = 0
        /\ calls.head = 0 /\ calls.get = 0 /\ calls.scan = 0 /\ calls.acquire = 0

C8_Witness ==
    /\ ListingFailed
    /\ page_no = 2
    /\ Len(store_keys) = 5
    /\ scan_results.error # ""

(***************************************************************************)
(* C9 (as the specification states it): with no bucket configured and no   *)
(* notification record in the event (Records absent, or present and        *)
(* empty), the returned summary has the top-level error set, no details,   *)
(* all counters 0, and no collaborator has been called.                    *)
(***************************************************************************)
C9_NoBucketNoRecords ==
    (pc = "done" /\ env_bucket = "" /\ (~has_records \/ records = <<>>)) =>
        /\ scan_results.error # ""
        /\ scan_results.details = <<>>
        /\ scan_results.total_scanned = 0
        /\ calls = NoCalls

(***************************************************************************)
(* C10: a batch over clean1.txt, eicar.txt, huge.bin and                   *)
(* missing-after-list.txt, with no injected fault and no early stop, ends  *)
(* with clean = infected = skipped = errors = 1, total_scanned 3 or 4, no  *)
(* top-level error, and one detail per key in listing order with statuses  *)
(* clean, infected, skipped, error.                                        *)
(***************************************************************************)
C10_EndToEnd ==
    (BatchMode /\ pc = "done" /\ store_keys = <<KClean1, KEicar, KHuge, KMissing>>
        /\ faults = 0 /\ ~stopped) =>
        /\ scan_results.clean = 1 /\ scan_results.infected = 1
        /\ scan_results.skipped = 1 /\ scan_results.errors = 1
        /\ scan_results.total_scanned \in {3, 4}
        /\ scan_results.error = ""
        /\ DetailKeys = store_keys
        /\ DetailStatuses = <<"clean", "infected", "skipped", "error">>

C10_Witness ==
    /\ BatchMode /\ pc = "done" /\ store_keys = <<KClean1, KEicar, KHuge, KMissing>>
    /\ faults = 0 /\ ~stopped
    /\ has_context
    /\ checks = 4
    /\ Len(scan_results.details) = 4

(***************************************************************************)
(* C11 (as the specification states it): the output of sanitize_s3_key is  *)
(* at most 255 characters long, whatever the length of the key and of its  *)
(* extension.                                                              *)
(***************************************************************************)
C11_OutputAtMost255 ==
    san_pc \in {"sanitized", "resolved"} => Len(san_out) <= MaxKeyChars

(***************************************************************************)
(* C12 (as the specification states it): with a bucket configured and no   *)
(* notification record in the event (Records absent, or present and        *)
(* empty) the invocation is a batch: the bucket is listed and, unless the  *)
(* listing fails or the time budget stops the loop, every listed key gets  *)
(* its result.                                                             *)
(***************************************************************************)
C12_NoRecordsMeansBatch ==
    (pc = "done" /\ env_bucket # "" /\ (~has_records \/ records = <<>>)
        /\ ~stopped /\ scan_results.error = "") =>
        /\ calls.list >= 1
        /\ DetailKeys = store_keys

(***************************************************************************)
(* C13: the scanner's outcome decides the verdict: exit status 1 gives     *)
(* infected and exit status 0 gives clean, both without an error message;  *)
(* any other exit status, a timeout, a missing clamscan and any other      *)
(* exception each give scan_file's own error message, and none of them     *)
(* leaves scan_file as an exception (which the pipeline would report as    *)
(* an unexpected error).                                                   *)
(***************************************************************************)
ScanFileMessages ==
    [exit2             |-> "ClamAV scan failed with return code",
     TimeoutExpired    |-> "ClamAV scan timed out",
     FileNotFoundError |-> "ClamAV (clamscan) not found",
     Exception         |-> "Error scanning file"]

C13_ScannerVerdict ==
    (pc = "scanning" /\ ppc \in {"finally", "returned"}) =>
        /\ Happened("scan", "exit1") => (result.status = "infected" /\ result.error = <<>>)
        /\ Happened("scan", "exit0") => (result.status = "clean" /\ result.error = <<>>)
        /\ \A f \in DOMAIN ScanFileMessages :
              Happened("scan", f) =>
                  /\ result.status = "error"
                  /\ result.error[1] = ScanFileMessages[f]
                  /\ result.size_mb = file_size_mb

C13_Witness ==
    /\ PipelineReturned
    /\ Happened("scan", "FileNotFoundError")
    /\ result.status = "error"
    /\ result.error[1] = "ClamAV (clamscan) not found"

(***************************************************************************)
(* C14 (as the specification states it): when head_object fails, whatever  *)
(* the failure, the size is taken as 0 and the run goes on to mkdtemp,     *)
(* the download and the scan: right after a failed probe no result has     *)
(* been decided, and a run that returns without a download attempt has     *)
(* failed somewhere else as well.                                          *)
(***************************************************************************)
ProbeFailed == Happened("head", "ClientError") \/ Happened("head", "Exception")

C14_ProbeFailureProceeds ==
    (pc = "scanning" /\ ProbeFailed) =>
        /\ file_size_mb = 0
        /\ result.status # "skipped"
        /\ Len(events) = 1 => (ppc = "acquire" /\ result = NoResult)
        /\ (PipelineReturned /\ CountOp("download") = 0) => Happened("acquire", "OSError")

(***************************************************************************)
(* C15: the collaborator calls of one pipeline run happen in the order     *)
(* size probe, mkdtemp, download, existence and containment re-check,      *)
(* scanner, rmtree, each at most once; a download that fails with a        *)
(* ClientError ends the run with status error carrying the error code,     *)
(* and the scanner is not invoked in that run.                             *)
(***************************************************************************)
StepRank(op) ==
    CASE op = "head" -> 1 [] op = "acquire" -> 2 [] op = "download" -> 3
      [] op = "recheck" -> 4 [] op = "scan" -> 5 [] op = "release" -> 6

C15_StepOrder ==
    /\ \A i, j \in 1..Len(events) : i < j => StepRank(events[i][1]) < StepRank(events[j][1])
    /\ (events # <<>>) => events[1][1] = "head"
    /\ CountOp("scan") > 0 => (Happened("download", "ok") /\ Happened("recheck", "ok"))
    /\ (pc = "scanning" /\ Happened("download", "ClientError")) =>
          /\ ppc \in {"finally", "returned"}
          /\ result.status = "error"
          /\ result.error = <<"Error accessing S3 object",
                              IF ObjectPresent(key) THEN "AccessDenied" ELSE "404">>
          /\ CountOp("scan") = 0
          /\ CountOp("recheck") = 0
    /\ PipelineReturned /\ Happened("acquire", "ok") => events[Len(events)][1] = "release"

C15_Witness ==
    /\ PipelineReturned
    /\ key = KMissing
    /\ Happened("download", "ClientError")
    /\ result.error = <<"Error accessing S3 object", "404">>
    /\ events[Len(events)][1] = "release"

(***************************************************************************)
(* C16: in batch mode the remaining time is read once before each object   *)
(* and nowhere else (never without a context); the loop stops at the first *)
(* reading below the 30-second margin and only then, and from there on no  *)
(* object is probed, fetched or scanned and the summary stays as it was;   *)
(* details is a prefix of the listing; a pipeline run that has started is  *)
(* never cut short by the budget: no reading is taken during it and its    *)
(* result is folded.                                                       *)
(***************************************************************************)
InBatchLoop == BatchMode /\ pc \in {"batch", "scanning", "done"} /\ ~ListingFailed

C16_OnlyCheckpointBetweenObjects ==
    /\ has_records => (checks = 0 /\ ~stopped)
    /\ ~has_context => (checks = 0 /\ ~stopped /\ last_remaining = NoReading)
    /\ InBatchLoop =>
          /\ DetailKeys = SubSeq(object_keys, 1, Len(scan_results.details))
          /\ Len(scan_results.details) = idx - 1
          /\ scan_results.total_scanned = idx - 1
          /\ calls.head = IF pc = "scanning" /\ ppc # "probe" THEN idx ELSE idx - 1
          /\ has_context =>
                checks = IF pc = "scanning" \/ stopped THEN idx ELSE idx - 1
          /\ stopped <=> (has_context /\ checks > 0 /\ last_remaining < TimeMarginMillis)
          /\ stopped =>
                /\ pc = "done"
                /\ idx <= Len(object_keys)
                /\ scan_results.error = ""
                /\ calls.get <= idx - 1 /\ calls.scan <= idx - 1
          /\ (pc = "done" /\ ~stopped) => DetailKeys = object_keys

C16_Witness ==
    /\ InBatchLoop /\ stopped
    /\ checks = 3
    /\ last_remaining = TimeMarginMillis - 1
    /\ Len(scan_results.details) = 2
    /\ Len(object_keys) = 5
    /\ calls.head = 2

(***************************************************************************)
(* C17: whenever the pipeline is about to download or to scan, or has done *)
(* so, the local path it uses is a file lexically inside the workspace     *)
(* directory that this run acquired; a run whose containment check fails   *)
(* ends with status error without a download or a scan of that path.       *)
(***************************************************************************)
ContainmentFailed ==
    /\ result.status = "error"
    /\ result.error[1] = "Unexpected error processing"
    /\ result.error[2] \in {"Invalid file path detected", "Security violation"}

C17_LocalPathInsideWorkspace ==
    /\ (pc = "scanning" /\ (ppc \in {"download", "scan"} \/ CountOp("download") > 0)) =>
          /\ Happened("acquire", "ok")
          /\ temp_dir = TempRoot
          /\ temp_file_path # temp_dir
          /\ LexicallyInside(temp_file_path, temp_dir)
          /\ ~HasDotDotSegment(temp_file_path)
    /\ (pc = "scanning" /\ result.status # "none" /\ ContainmentFailed) =>
          /\ CountOp("scan") = 0
          /\ CountOp("download") = 0 \/ Happened("recheck", "outside")

C17_Witness ==
    /\ pc = "scanning" /\ ppc = "scan"
    /\ key = KSibling
    /\ safe_key = <<Dot, Dot, Slash, "w", "2", Dot, "t", "x", "t">>
    /\ Happened("download", "ok")
    /\ LexicallyInside(temp_file_path, temp_dir)

(***************************************************************************)
(* C18: at every point of an invocation, reactive or batch, also after an  *)
(* early stop or an abort, total_scanned = clean + infected + errors +     *)
(* skipped = the length of details, and each counter is the number of      *)
(* details entries with its status.                                        *)
(***************************************************************************)
C18_CountersMatchDetails ==
    /\ scan_results.total_scanned = Len(scan_results.details)
    /\ scan_results.total_scanned =
          scan_results.clean + scan_results.infected + scan_results.errors
          + scan_results.skipped
    /\ scan_results.clean = CountStatus("clean")
    /\ scan_results.infected = CountStatus("infected")
    /\ scan_results.errors = CountStatus("error")
    /\ scan_results.skipped = CountStatus("skipped")
    /\ \A i \in 1..Len(scan_results.details) : scan_results.details[i].status \in Statuses

C18_Witness ==
    /\ pc = "done" /\ stopped
    /\ scan_results.total_scanned = 4
    /\ scan_results.clean = 1 /\ scan_results.infected = 1
    /\ scan_results.skipped = 1 /\ scan_results.errors = 1

(***************************************************************************)
(* C19: a result is clean only when, in that run, the download succeeded,  *)
(* the downloaded file existed and clamscan exited with status 0; a run    *)
(* whose scanner failed or timed out, whose fetch failed or whose object   *)
(* was skipped is never clean, in the result or in the summary; an exit    *)
(* with status 1 is always reported as infected.                           *)
(***************************************************************************)
C19_CleanOnlyAfterGoodScan ==
    /\ (pc = "scanning" /\ result.status = "clean") =>
          /\ Happened("download", "ok")
          /\ Happened("recheck", "ok")
          /\ Happened("scan", "exit0")
          /\ ~FatalFailure
          /\ ~ExceedsLimit(file_size_mb)
    /\ (pc = "scanning" /\ ppc \in {"finally", "returned"} /\ Happened("scan", "exit1")) =>
          result.status = "infected"
    /\ (pc = "scanning" /\ result.status = "infected") => Happened("scan", "exit1")
    /\ \A i \in 1..Len(scan_results.details) :
          LET d == scan_results.details[i]
          IN  /\ d.status = "clean" =>
                    (ContentExit(d.key) = 0 /\ ObjectPresent(d.key) /\ d.error = <<>>
                     /\ d.size_mb <= LimitBytes)
              /\ ContentExit(d.key) = 1 => d.status # "clean"
    /\ scan_results.clean = CountStatus("clean")

C19_Witness ==
    /\ pc = "done"
    /\ Len(scan_results.details) = 2
    /\ scan_results.details[1].status = "clean"
    /\ scan_results.details[2].status = "error"
    /\ scan_results.details[2].error = <<"ClamAV scan timed out", "">>
    /\ scan_results.clean = 1

=============================================================================
